---- MODULE Spec2Model ----
(***************************************************************************)
(* Model of the vqueue audio scheduler of src/src/vqueue.cpp: the priority *)
(* lanes (VQueue), the dispatch step (VQueue::schedule), the enqueue entry *)
(* point (VQueue::enqueue taking a Molecule), the command parser in front  *)
(* of it (VQueue::enqueue taking the command text) and the completion      *)
(* trampoline (play_stop_handler); vqueue_stop and vqueue_cancel are those *)
(* of src/modules/vqueue/vqueue.cpp.                                       *)
(*                                                                         *)
(* Pointers into a lane (std::vector<Molecule>) are modelled as slots      *)
(* [lane, idx] (idx is 1-based); Molecule::current stays 0-based as in the *)
(* source, so atoms[current] is m.atoms[m.current + 1].                    *)
(***************************************************************************)
EXTENDS Integers, Sequences, FiniteSets, TLC

\* ---------------------------------------------------------------- constants
max_priority == 5

m_discard == 1
m_pause == 2
m_mute == 4
m_restart == 8
m_dont_interrupt == 16
m_loop == 32

\* ------------------------------------------------------------------- bounds
\* number of enqueue commands issued in a run
MaxEnq == 3
\* largest value of the monotonic clock (tmr_jiffies)
MaxTime == 2
\* largest number of audio operations the host keeps in flight; a further
\* start fails
MaxOps == 2

VARIABLES
    molecules,   \* VQueue::molecules: lane -> sequence of Molecule
    cap,         \* capacity() of each lane's vector
    g_play,      \* handle of the tracked player, 0 = NULL
    g_rec,       \* handle of the tracked recorder, 0 = NULL
    ops,         \* audio operations in flight in the host (tracked or not)
    pc,          \* "idle" | "loop" (inside schedule's while) | "fault"
    now,         \* schedule's local `now`
    clock,       \* tmr_jiffies()
    fault,       \* the process was killed by a trap
    past_end,    \* what lies behind vqueue.molecules[max_priority - 1]
    started,     \* audio operations started by the current schedule call
    ret,         \* return value of the last schedule call
    enqueued,    \* history: the molecules handed to enqueue, in order
    begun,       \* history: <<molecule id, atom index>> pairs dispatched
    preempted,   \* history: molecule id -> what it was doing when preempted
    cmd          \* history: the last entry point called and how it ended

vars == <<molecules, cap, g_play, g_rec, ops, pc, now, clock, fault,
          past_end, started, ret, enqueued, begun, preempted, cmd>>

\* ----------------------------------------------------------------- helpers
Max(S) == CHOOSE x \in S : \A y \in S : y <= x
Min(S) == CHOOSE x \in S : \A y \in S : x <= y
Remove(s, i) == [k \in 1..(Len(s) - 1) |-> IF k < i THEN s[k] ELSE s[k + 1]]

\* mode & e
HasMode(mode, e) == (mode \div e) % 2 = 1

Lanes == 0..(max_priority - 1)
Slot(p, i) == [lane |-> p, idx |-> i]
NullPtr == Slot(-1, 0)
Live(q, s) == s.lane \in Lanes /\ s.idx \in 1..Len(q[s.lane])
At(q, s) == q[s.lane][s.idx]

\* ------------------------------------------------------------------- atoms
\* aufile_get_length(): the duration of an audio file in ms
AufileLength(filename) ==
    CASE filename = "hello.wav" -> 2
      [] filename = "long.wav" -> 3
      [] filename = "beep.wav" -> 1
      [] OTHER -> 0

\* Play::set_filename stores the name and returns the file's length; it
\* never assigns _length, which keeps its default 0
Play_set_filename(a, filename) == [a EXCEPT !.filename = filename]
Play_set_offset(a, offset) == [a EXCEPT !.offset = offset]

\* the three atom classes with their default member initialisers; the
\* records share one shape, a class leaving the others' members at default
NewPlay == [kind |-> "Play", filename |-> "", dtmf |-> <<>>,
            length |-> 0, offset |-> 0, pos |-> 0,
            max_silence |-> 1000, inter_digit_delay |-> 100]
NewRecord == [kind |-> "Record", filename |-> "", dtmf |-> <<>>,
              length |-> 0, offset |-> 0, pos |-> 0,
              max_silence |-> 1000, inter_digit_delay |-> 100]
NewDTMF == [kind |-> "DTMF", filename |-> "", dtmf |-> <<>>,
            length |-> 0, offset |-> 0, pos |-> 0,
            max_silence |-> 1000, inter_digit_delay |-> 100]

PlayAtom(filename, offset) ==
    Play_set_offset(Play_set_filename(NewPlay, filename), offset)
RecordAtom(filename) == [NewRecord EXCEPT !.filename = filename]
DTMFAtom(digits) == [NewDTMF EXCEPT !.dtmf = digits]

\* struct Molecule, default member initialisers; id and line (the command
\* line it was parsed from, if any) are history only
NewMolecule(priority, mode, atoms) ==
    [atoms |-> atoms, time_started |-> 0, time_stopped |-> 0,
     position |-> 0, current |-> 0, priority |-> priority, mode |-> mode,
     id |-> 0, line |-> <<>>]

\* Molecule::length(start, end), end < 0 meaning atoms.size()
RECURSIVE SumLength(_, _, _)
SumLength(atoms, start, end) ==
    IF start >= end THEN 0
    ELSE atoms[start + 1].length + SumLength(atoms, start + 1, end)

length(m, start, end) ==
    SumLength(m.atoms, start, IF end < 0 THEN Len(m.atoms) ELSE end)

\* Molecule::set_position divides by length() when m_loop is set
set_position_traps(m) == HasMode(m.mode, m_loop) /\ length(m, 0, -1) = 0

\* Molecule::set_position.  Where the modulo is by zero and does not trap,
\* the remainder is the dividend (msub after a udiv that yields 0).
set_position(m, position) ==
    LET len == length(m, 0, -1)
        p == IF HasMode(m.mode, m_loop) /\ len # 0 THEN position % len
             ELSE position
        hits == {i \in 0..(Len(m.atoms) - 1) : length(m, 0, i + 1) >= p}
    IN  IF hits # {} /\ HasMode(m.mode, m_mute)
        THEN LET i == Min(hits)
                 offset == p - length(m, 0, i)
             IN  [m EXCEPT !.current = i,
                           !.atoms[i + 1] =
                               IF @.kind = "Play"
                               THEN Play_set_offset(@, offset) ELSE @]
        ELSE m

\* ------------------------------------------------------------------ VQueue
\* VQueue::end
end(q) == Slot(0, Len(q[0]) + 1)

\* next scanning the lanes upwards
next_lowest_first(q) ==
    LET full == {p \in Lanes : \E i \in 1..Len(q[p]) : Len(q[p][i].atoms) > 0}
    IN  IF full = {} THEN end(q)
        ELSE LET p == Min(full)
             IN  Slot(p, Min({i \in 1..Len(q[p]) : Len(q[p][i].atoms) > 0}))

\* VQueue::next, lanes 0..max_priority-1
next(q) ==
    LET full == {p \in Lanes : \E i \in 1..Len(q[p]) : Len(q[p][i].atoms) > 0}
    IN  IF full = {} THEN end(q)
        ELSE LET p == Max(full)
             IN  Slot(p, Min({i \in 1..Len(q[p]) : Len(q[p][i].atoms) > 0}))

\* VQueue::next starts at p = max_priority and so reads one vector past the
\* array: its begin is current_id and padding (0), its end is the word
\* behind the queue.  A non-null end makes the inner loop dereference null.
next_traps(gp, gr) ==
    \/ past_end = "nonzero"
    \/ past_end = "g_play" /\ gp # 0
    \/ past_end = "g_rec" /\ gr # 0

\* VQueue::discard: erase the element whose address is m
discard(q, m) ==
    IF Live(q, m) THEN [q EXCEPT ![m.lane] = Remove(@, m.idx)] ELSE q

\* schedule up to its while loop without the discard of a molecule whose
\* atoms are used up
schedule_stopped_keeps(q, stopped) ==
    LET n == next(q)
    IN  IF ~Live(q, stopped) THEN q
        ELSE IF HasMode(At(q, stopped).mode, m_discard)
             THEN discard(q, stopped)
        ELSE IF n # end(q) /\ stopped = n
             THEN [q EXCEPT ![n.lane][n.idx].current = @ + 1]
        ELSE q

\* VQueue::schedule up to its while loop.  A pointer behind the live part of
\* a lane reads a destroyed element: whatever its mode, discard finds no
\* element at that address and it is not the element next() returned.
schedule_stopped(q, stopped) ==
    LET n == next(q)
    IN  IF ~Live(q, stopped) THEN q
        ELSE IF HasMode(At(q, stopped).mode, m_discard)
             THEN discard(q, stopped)
        ELSE IF n # end(q) /\ stopped = n
             THEN LET q1 == [q EXCEPT ![n.lane][n.idx].current = @ + 1]
                  IN  IF At(q1, n).current >= Len(At(q1, n).atoms)
                      THEN discard(q1, stopped) ELSE q1
        ELSE q

\* --------------------------------------------------------- the audio host
\* an operation in flight: h its handle, arg the Molecule* bound to its
\* finish handler, dangling whether arg points into a freed buffer; mol,
\* atom, offset, file and at record what was started and when
Op(h, kind, arg, m, offset, file) ==
    [h |-> h, kind |-> kind, arg |-> arg, dangling |-> FALSE, mol |-> m.id,
     atom |-> m.current, offset |-> offset, file |-> file, at |-> clock]

NewHandle == Min({k \in 1..(MaxOps + 1) : \A o \in ops : o.h # k})

\* mem_deref(g_play), mem_deref(g_rec): the tracked operations end, their
\* finish handler is never called
Released(os) == {o \in os : o.h # g_play /\ o.h # g_rec}

\* the wav file schedule plays for a DTMF digit
DtmfFilename(ch) ==
    CASE ch = "*" -> "soundstar.wav"
      [] ch = "#" -> "soundroute.wav"
      [] OTHER -> "sound<ctl>.wav"

\* DTMF::current, std::string::operator[] at size() being the terminator
DTMF_current(dtmf, pos) == IF pos < Len(dtmf) THEN dtmf[pos + 1] ELSE "NUL"

TrapPtr == Slot(-2, 0)

\* what a Molecule* bound to a finish handler denotes when the handler runs.
\* A pointer into a freed buffer may trap, match nothing, or alias any live
\* element (the allocator reuses freed blocks).
Targets(o) ==
    IF o.dangling
    THEN {TrapPtr, NullPtr} \cup
         {s \in [lane : Lanes, idx : 1..MaxEnq] : Live(molecules, s)}
    ELSE {o.arg}

\* ----------------------------------------------------------------- history
\* a call: the entry point, its tokens, how the call ended ("enqueue": it
\* went on into enqueue(const Molecule&, void*) and returns what schedule
\* returns) and the value it returned where it returned before that
Cmd(op, line, res, rv) == [op |-> op, line |-> line, res |-> res, rv |-> rv]

\* the running molecule: the live element the tracked player is bound to
Running ==
    {o \in ops : /\ o.h = g_play /\ g_play # 0 /\ ~o.dangling
                 /\ Live(molecules, o.arg)
                 /\ At(molecules, o.arg).id = o.mol}

\* the duration of the files of atoms[0..k)
RECURSIVE FileLength(_, _)
FileLength(atoms, k) ==
    IF k = 0 THEN 0
    ELSE FileLength(atoms, k - 1) +
         (IF atoms[k].kind = "Play" THEN AufileLength(atoms[k].filename)
          ELSE 0)

\* the record of a preemption: which atom of which molecule was playing,
\* when it lost the player (t1) and how far into the molecule it had played
Preemption(o) ==
    [id |-> o.mol, atom |-> o.atom, t1 |-> clock,
     pos |-> FileLength(enqueued[o.mol].atoms, o.atom) + o.offset
             + (clock - o.at)]

\* ------------------------------------------------------------------ actions
Trap ==
    /\ fault' = TRUE
    /\ pc' = "fault"
    /\ UNCHANGED <<molecules, cap, g_play, g_rec, ops, now, clock, past_end,
                   started, ret, enqueued, begun, preempted, cmd>>

\* tmr_jiffies advances between two events
Tick ==
    /\ pc = "idle"
    /\ clock < MaxTime
    /\ clock' = clock + 1
    /\ UNCHANGED <<molecules, cap, g_play, g_rec, ops, pc, now, fault,
                   past_end, started, ret, enqueued, begun, preempted, cmd>>

\* VQueue::enqueue(const Molecule&, void*), up to schedule's while loop
enqueue(m0) ==
    /\ pc = "idle"
    /\ Len(enqueued) < MaxEnq
    /\ LET m == [m0 EXCEPT !.id = Len(enqueued) + 1]
           p == m.priority
           \* molecules[p] with p outside 0..max_priority-1 is a write
           \* outside the queue: it traps or lands in foreign memory
           inside == p \in Lanes
           realloc == inside /\ Len(molecules[p]) = cap[p]
           q1 == IF inside THEN [molecules EXCEPT ![p] = Append(@, m)]
                 ELSE molecules
           ops1 == {IF realloc /\ o.arg.lane = p
                    THEN [o EXCEPT !.dangling = TRUE] ELSE o :
                    o \in Released(ops)}
           stopped == next(q1)
       IN  \/ /\ ~inside \/ next_traps(0, 0)
              /\ Trap
           \/ /\ ~next_traps(0, 0)
              /\ molecules' = schedule_stopped(q1,
                                  IF stopped # end(q1) THEN stopped
                                  ELSE NullPtr)
              /\ cap' = IF inside
                        THEN [cap EXCEPT ![p] =
                                 IF realloc
                                 THEN (IF @ = 0 THEN 1 ELSE 2 * @)
                                 ELSE @]
                        ELSE cap
              /\ g_play' = 0
              /\ g_rec' = 0
              /\ ops' = ops1
              /\ pc' = "loop"
              /\ now' = clock
              /\ started' = 0
              /\ ret' = 0
              /\ enqueued' = Append(enqueued, m0)
              /\ preempted' =
                     {r \in preempted : \A o \in Running : r.id # o.mol} \cup
                     {Preemption(o) : o \in
                         {r \in Running : At(molecules, r.arg).priority < p}}
              /\ cmd' = Cmd("enqueue", m0.line, "enqueue", 0)
              /\ UNCHANGED <<clock, fault, past_end, begun>>

\* play_stop_handler, up to schedule's while loop; d is the time that
\* passes between the handler's and schedule's reading of the clock
play_stop_handler(o) ==
    /\ pc = "idle"
    /\ o \in ops
    /\ o.kind = "play"
    /\ \E d \in {0, 1}, stopped \in Targets(o) :
          /\ clock + d <= MaxTime
          /\ \/ /\ stopped = TrapPtr \/ next_traps(0, 0)
                /\ Trap
             \/ /\ stopped # TrapPtr
                /\ ~next_traps(0, 0)
                /\ LET q1 == IF Live(molecules, stopped)
                             THEN [molecules EXCEPT
                                     ![stopped.lane][stopped.idx] =
                                        [time_stopped |-> clock,
                                         position |-> clock - @.time_started]
                                        @@ @]
                             ELSE molecules
                   IN  molecules' = schedule_stopped(q1, stopped)
                /\ g_play' = 0
                /\ g_rec' = 0
                /\ ops' = Released(ops) \ {o}
                /\ pc' = "loop"
                /\ now' = clock + d
                /\ clock' = clock + d
                /\ started' = 0
                /\ ret' = 0
                /\ preempted' =
                       {r \in preempted :
                           Live(molecules, stopped) =>
                               r.id # At(molecules, stopped).id}
                /\ cmd' = Cmd("play_stop_handler", <<>>, "none", 0)
                /\ UNCHANGED <<cap, fault, past_end, enqueued, begun>>

\* the id of the molecule schedule's while loop is serving, 0 if none
Serving ==
    IF pc = "loop" /\ next(molecules) # end(molecules)
    THEN At(molecules, next(molecules)).id ELSE 0

\* schedule returns v
Return(q, v) ==
    /\ molecules' = q
    /\ pc' = "idle"
    /\ ret' = v
    /\ preempted' = {r \in preempted : r.id # Serving}
    /\ UNCHANGED <<cap, g_play, g_rec, ops, now, clock, fault, past_end,
                   started, enqueued, begun, cmd>>

\* an operation was started for the molecule at n; `n = vqueue.next()` at
\* the bottom of the while loop follows
Started(q, n, o) ==
    /\ molecules' = q
    /\ ops' = ops \cup {o}
    /\ g_play' = IF o.kind = "play" THEN o.h ELSE g_play
    /\ g_rec' = IF o.kind = "rec" THEN o.h ELSE g_rec
    /\ started' = started + 1
    /\ begun' = begun \cup {<<o.mol, o.atom>>}
    /\ preempted' = {r \in preempted : r.id # o.mol}
    /\ IF next_traps(g_play', g_rec')
       THEN fault' = TRUE /\ pc' = "fault"
       ELSE fault' = fault /\ pc' = "loop"
    /\ UNCHANGED <<cap, now, clock, past_end, ret, enqueued, cmd>>

\* schedule, `Atom a = n->atoms[n->current]` and the branch on its kind
Dispatch(q, n) ==
    LET m == At(q, n)
        a == m.atoms[m.current + 1]
    IN  CASE a.kind = "Play" ->
               \E err \in BOOLEAN :
                  /\ ~err => Cardinality(ops) < MaxOps
                  /\ IF err THEN Return(q, 1)
                     ELSE Started(q, n, Op(NewHandle, "play", n, m,
                                           a.offset, a.filename))
          [] a.kind = "DTMF" ->
               \* d is a reference to the copy a, so ++d never reaches the
               \* stored atom
               LET pos == a.pos + 1
                   over == pos > Len(a.dtmf)
                   q1 == IF over
                         THEN [q EXCEPT ![n.lane][n.idx].current = @ + 1]
                         ELSE q
                   m1 == At(q1, n)
                   file == DtmfFilename(
                              DTMF_current(a.dtmf, IF over THEN 0 ELSE pos))
               IN  IF over /\ m1.current >= Len(m1.atoms)
                   THEN \* return schedule(&(*n))
                        /\ molecules' = schedule_stopped(q1, n)
                        /\ now' = clock
                        /\ IF next_traps(g_play, g_rec)
                           THEN fault' = TRUE /\ pc' = "fault"
                           ELSE fault' = fault /\ pc' = "loop"
                        /\ UNCHANGED <<cap, g_play, g_rec, ops, clock,
                                       past_end, started, ret, enqueued,
                                       begun, preempted, cmd>>
                   ELSE \E err \in BOOLEAN :
                           /\ ~err => Cardinality(ops) < MaxOps
                           /\ IF err THEN Return(q1, 1)
                              ELSE Started(q1, n, Op(NewHandle, "play", n,
                                                     m1, 0, file))
          [] a.kind = "Record" ->
               \* ausrc_find returns NULL when the aufile source is not
               \* registered, and ausrc->alloch then traps
               \E res \in {"null", "err", "ok"} :
                  /\ res = "ok" => Cardinality(ops) < MaxOps
                  /\ CASE res = "null" -> Trap
                       [] res = "err" -> Return(q, 1)
                       [] res = "ok" ->
                            Started(q, n, Op(NewHandle, "rec", NullPtr, m,
                                             0, a.filename))

\* one pass of schedule's while loop, or its exit
schedule ==
    /\ pc = "loop"
    /\ LET q == molecules
           n == next(q)
       IN  IF n = end(q) THEN Return(q, 0)
           ELSE LET m == At(q, n)
                    pos == now - m.time_stopped
                IN  IF HasMode(m.mode, m_pause)
                    THEN \/ /\ set_position_traps(m)
                            /\ Trap
                         \/ Dispatch([q EXCEPT ![n.lane][n.idx] =
                                         set_position(m, m.position)], n)
                    ELSE IF HasMode(m.mode, m_mute) /\ pos >= length(m, 0, -1)
                    THEN \* the inner `if (n->mode & m_mute)` always holds
                         LET q1 == discard(q, n)
                             n1 == next(q1)
                         IN  \/ /\ IF n1 = end(q1) THEN TRUE
                                   ELSE \/ next_traps(g_play, g_rec)
                                        \/ set_position_traps(At(q1, n1))
                                /\ Trap
                             \/ /\ ~next_traps(g_play, g_rec)
                                /\ IF n1 = end(q1)
                                   THEN \* set_position through end(): no
                                        \* live molecule is changed
                                        Return(q1, 0)
                                   ELSE LET m1 == set_position(At(q1, n1), pos)
                                            m2 == IF m1.current = 0
                                                  THEN [m1 EXCEPT
                                                     !.time_started = clock]
                                                  ELSE m1
                                        IN  Return([q1 EXCEPT
                                               ![n1.lane][n1.idx] = m2], 0)
                    ELSE Dispatch(q, n)

\* ------------------------------------------------------------------ parser
\* errno EINVAL
EINVAL == 22

\* the characters of a token (std::string)
Chars(token) ==
    CASE token = "" -> << >>
      [] token = "0" -> <<"0">>
      [] token = "1" -> <<"1">>
      [] token = "2" -> <<"2">>
      [] token = "7" -> <<"7">>
      [] token = "-1" -> <<"-", "1">>
      [] token = "12" -> <<"1", "2">>
      [] token = "1*" -> <<"1", "*">>
      [] token = "100" -> <<"1", "0", "0">>
      [] token = "500" -> <<"5", "0", "0">>
      [] token = "x" -> <<"x">>
      [] token = "q" -> <<"q">>
      [] token = "p" -> <<"p">>
      [] token = "r" -> <<"r">>
      [] token = "d" -> <<"d">>
      [] token = "play" -> <<"p", "l", "a", "y">>
      [] token = "record" -> <<"r", "e", "c", "o", "r", "d">>
      [] token = "dtmf" -> <<"d", "t", "m", "f">>
      [] token = "loop" -> <<"l", "o", "o", "p">>
      [] token = "mute" -> <<"m", "u", "t", "e">>
      [] token = "discard" -> <<"d", "i", "s", "c", "a", "r", "d">>
      [] token = "pause" -> <<"p", "a", "u", "s", "e">>
      [] token = "restart" -> <<"r", "e", "s", "t", "a", "r", "t">>
      [] token = "dont_interrupt" ->
             <<"d", "o", "n", "t", "_", "i", "n", "t", "e", "r", "r", "u",
               "p", "t">>
      [] token = "dtmf_stop" ->
             <<"d", "t", "m", "f", "_", "s", "t", "o", "p">>
      [] token = "hello.wav" ->
             <<"h", "e", "l", "l", "o", ".", "w", "a", "v">>
      [] token = "long.wav" -> <<"l", "o", "n", "g", ".", "w", "a", "v">>
      [] token = "beep.wav" -> <<"b", "e", "e", "p", ".", "w", "a", "v">>
      [] token = "msg.wav" -> <<"m", "s", "g", ".", "w", "a", "v">>

\* is_atom_start; token[0] of an empty string is the terminator
is_atom_start(token) ==
    LET cs == Chars(token)
    IN  cs # <<>> /\ cs[1] \in {"p", "r", "d"}

Digit(c) ==
    CASE c = "0" -> 0 [] c = "1" -> 1 [] c = "2" -> 2 [] c = "3" -> 3
      [] c = "4" -> 4 [] c = "5" -> 5 [] c = "6" -> 6 [] c = "7" -> 7
      [] c = "8" -> 8 [] c = "9" -> 9 [] OTHER -> -1

\* the value of the digits cs[i..] up to the first character that is not
\* a digit, acc being the value of the digits before i
RECURSIVE Digits(_, _, _)
Digits(cs, i, acc) ==
    IF i > Len(cs) \/ Digit(cs[i]) < 0 THEN acc
    ELSE Digits(cs, i + 1, 10 * acc + Digit(cs[i]))

\* std::stol: an optional sign, then the longest run of digits; it throws
\* std::invalid_argument when there is no digit
stol(token) ==
    LET cs == Chars(token)
        signed == cs # <<>> /\ cs[1] \in {"-", "+"}
        first == IF signed THEN 2 ELSE 1
        v == Digits(cs, first, 0)
    IN  IF first > Len(cs) \/ Digit(cs[first]) < 0
        THEN [throws |-> TRUE, val |-> 0]
        ELSE [throws |-> FALSE,
              val |-> IF signed /\ cs[1] = "-" THEN 0 - v ELSE v]

\* the flag a mode keyword stands for, 0 for any other token
mode_flag(token) ==
    CASE token = "loop" -> m_loop
      [] token = "mute" -> m_mute
      [] token = "discard" -> m_discard
      [] token = "pause" -> m_pause
      [] token = "restart" -> m_restart
      [] token = "dont_interrupt" -> m_dont_interrupt
      [] OTHER -> 0

\* mode | flag
BitOr(mode, flag) == IF HasMode(mode, flag) THEN mode ELSE mode + flag

\* the outcome of a part of the parser: res is "go" (carry on at token t),
\* "ok", "zero" (return 0), "einval" (return EINVAL), "hang" (a loop that
\* changes nothing), "throw" (an exception nobody catches) or "past_end"
\* (tokens.end() was dereferenced)
Outcome(res, t, mode, atoms) ==
    [res |-> res, t |-> t, mode |-> mode, atoms |-> atoms]

\* the `for (int i = 0; i < 2; ++i)` loop over the mode keywords, token t
\* being the current one (t = Len(tokens) + 1 is tokens.end())
RECURSIVE parse_modes(_, _, _, _)
parse_modes(tokens, t, mode, i) ==
    IF i >= 2 \/ mode_flag(tokens[t]) = 0
    THEN Outcome("go", t, mode, <<>>)
    ELSE IF t + 1 > Len(tokens)
         THEN Outcome("zero", t + 1, BitOr(mode, mode_flag(tokens[t])), <<>>)
         ELSE parse_modes(tokens, t + 1,
                          BitOr(mode, mode_flag(tokens[t])), i + 1)

\* the `while (token != tokens.end())` loop over the atoms
RECURSIVE parse_atoms(_, _, _)
parse_atoms(tokens, t, atoms) ==
    IF t > Len(tokens) THEN Outcome("ok", t, 0, atoms)
    ELSE IF tokens[t] \in {"p", "play"}
    THEN IF t + 1 > Len(tokens) THEN Outcome("zero", t + 1, 0, atoms)
         ELSE LET filename == tokens[t + 1]
              IN  IF t + 2 > Len(tokens)
                  THEN parse_atoms(tokens, t + 2,
                                   Append(atoms, PlayAtom(filename, 0)))
                  ELSE IF ~is_atom_start(tokens[t + 2])
                  THEN \* the offset is read and the token is left in place
                       IF stol(tokens[t + 2]).throws
                       THEN Outcome("throw", t + 2, 0, atoms)
                       ELSE parse_atoms(tokens, t + 2,
                                Append(atoms,
                                    PlayAtom(filename,
                                             stol(tokens[t + 2]).val)))
                  ELSE \* the keyword of the following atom is skipped
                       parse_atoms(tokens, t + 3,
                                   Append(atoms, PlayAtom(filename, 0)))
    ELSE IF tokens[t] \in {"r", "record"}
    THEN IF t + 1 > Len(tokens) THEN Outcome("zero", t + 1, 0, atoms)
         ELSE LET record == RecordAtom(tokens[t + 1])
              IN  IF t + 2 > Len(tokens) \/ is_atom_start(tokens[t + 2])
                  THEN parse_atoms(tokens, t + 2, Append(atoms, record))
                  ELSE IF stol(tokens[t + 2]).throws
                  THEN Outcome("throw", t + 2, 0, atoms)
                  ELSE parse_atoms(tokens, t + 3,
                           Append(atoms,
                               [record EXCEPT !.max_silence =
                                                  stol(tokens[t + 2]).val]))
    ELSE IF tokens[t] \in {"d", "dtmf"}
    THEN IF t + 1 > Len(tokens) THEN Outcome("zero", t + 1, 0, atoms)
         ELSE LET dtmf == DTMFAtom(Chars(tokens[t + 1]))
              IN  IF t + 2 > Len(tokens)
                  THEN \* *token is read without a test against end()
                       Outcome("past_end", t + 2, 0, Append(atoms, dtmf))
                  ELSE IF is_atom_start(tokens[t + 2])
                  THEN parse_atoms(tokens, t + 2, Append(atoms, dtmf))
                  ELSE IF stol(tokens[t + 2]).throws
                  THEN Outcome("throw", t + 2, 0, atoms)
                  ELSE parse_atoms(tokens, t + 3,
                           Append(atoms,
                               [dtmf EXCEPT !.inter_digit_delay =
                                                stol(tokens[t + 2]).val]))
    ELSE \* no branch matches and the token is not advanced
         Outcome("hang", t, 0, atoms)

\* VQueue::enqueue(const char*, void*) up to its call of
\* enqueue(const Molecule&, void*): the outcome and the molecule built
parse(tokens) ==
    IF tokens = <<>> \/ stol(tokens[1]).throws
    THEN [res |-> "einval", m |-> NewMolecule(0, 0, <<>>)]
    ELSE IF Len(tokens) < 2
    THEN [res |-> "zero", m |-> NewMolecule(stol(tokens[1]).val, 0, <<>>)]
    ELSE LET priority == stol(tokens[1]).val
             ms == parse_modes(tokens, 2, 0, 0)
             as == IF ms.res = "go" THEN parse_atoms(tokens, ms.t, <<>>)
                   ELSE ms
             m == [NewMolecule(priority, ms.mode, as.atoms)
                      EXCEPT !.line = tokens]
         IN  IF as.res = "ok"
             THEN [res |-> IF as.atoms = <<>> THEN "zero" ELSE "enqueue",
                   m |-> m]
             ELSE [res |-> as.res, m |-> m]

\* command lines as the tokens the regex splits them into (an empty line
\* gives one empty token): well-formed ones, and one for each way of being
\* malformed
Lines ==
    {<<"0", "discard", "p", "hello.wav">>,
     <<"1", "restart", "d", "1*", "r", "msg.wav", "500">>,
     <<"0", "pause", "r", "msg.wav", "p", "hello.wav">>,
     <<"0", "discard", "p", "hello.wav", "100">>,
     <<"0", "pause", "p", "hello.wav", "p", "long.wav">>,
     <<"0", "discard", "d", "12">>,
     <<"0", "loop", "loop", "discard", "p", "hello.wav">>,
     <<"">>,
     <<"7", "discard", "p", "hello.wav">>,
     <<"0", "discard">>,
     <<"0", "discard", "dtmf_stop">>,
     <<"0", "discard", "pause", "p", "hello.wav">>,
     <<"0", "discard", "q", "hello.wav">>}

\* what the parser makes of each of them
Parsed == [tokens \in Lines |-> parse(tokens)]

\* std::to_string of an int
RECURSIVE to_string(_)
to_string(n) ==
    LET digit(d) == CASE d = 0 -> "0" [] d = 1 -> "1" [] d = 2 -> "2"
                      [] d = 3 -> "3" [] d = 4 -> "4" [] d = 5 -> "5"
                      [] d = 6 -> "6" [] d = 7 -> "7" [] d = 8 -> "8"
                      [] d = 9 -> "9"
    IN  IF n < 0 THEN "-" \o to_string(0 - n)
        ELSE IF n < 10 THEN digit(n)
        ELSE to_string(n \div 10) \o digit(n % 10)

\* mode_string(m) from the flag e downwards, modestr being the text built
\* for the flags above e: a bar goes in before each flag, set or not, unless
\* the text is empty or ends with one, and a bar at the end is dropped
RECURSIVE mode_string(_, _, _)
mode_string(m, e, modestr) ==
    IF e = 0
    THEN IF modestr # <<>> /\ modestr[Len(modestr)] = "|"
         THEN SubSeq(modestr, 1, Len(modestr) - 1)
         ELSE modestr
    ELSE LET barred == IF modestr # <<>> /\ modestr[Len(modestr)] # "|"
                       THEN Append(modestr, "|")
                       ELSE modestr
             name == CASE e = m_discard -> "discard"
                       [] e = m_pause -> "pause"
                       [] e = m_mute -> "mute"
                       [] e = m_restart -> "restart"
                       [] e = m_dont_interrupt -> "dont_interrupt"
                       [] e = m_loop -> "loop"
         IN  mode_string(m, e \div 2,
                 IF HasMode(m, e) THEN Append(barred, name) ELSE barred)

\* the pieces of a text put together
RECURSIVE Text(_)
Text(pieces) ==
    IF pieces = <<>> THEN "" ELSE pieces[1] \o Text(Tail(pieces))

\* Molecule::desc as the tokens the regex of the parser splits it into: the
\* priority, the mode string unless it is empty, and a keyword and an
\* operand for each atom
RECURSIVE desc_atoms(_)
desc_atoms(atoms) ==
    IF atoms = <<>> THEN <<>>
    ELSE LET a == atoms[1]
             words == CASE a.kind = "Play" -> <<"play", a.filename>>
                        [] a.kind = "DTMF" -> <<"dtmf", Text(a.dtmf)>>
                        [] a.kind = "Record" -> <<"record", a.filename>>
         IN  words \o desc_atoms(Tail(atoms))

desc(m) ==
    LET modestr == Text(mode_string(m.mode, m_loop, <<>>))
    IN  <<to_string(m.priority)>>
        \o (IF modestr = "" THEN <<>> ELSE <<modestr>>)
        \o desc_atoms(m.atoms)

\* what the parser makes of the description of the molecule it built from
\* each of the lines
RoundTrip == [tokens \in Lines |-> parse(desc(Parsed[tokens].m))]

\* a command ends without touching the queue: it returns rv, or it never
\* returns ("hang": pc stays in the parser for ever), or the process dies
Ends(tokens, res, rv) ==
    /\ cmd' = Cmd("enqueue", tokens, res, rv)
    /\ pc' = CASE res = "hang" -> "hang"
               [] res = "throw" -> "fault"
               [] OTHER -> pc
    /\ fault' = (fault \/ res = "throw")
    /\ UNCHANGED <<molecules, cap, g_play, g_rec, ops, now, clock, past_end,
                   started, ret, enqueued, begun, preempted>>

\* VQueue::enqueue(const char*, void*).  Reading *tokens.end() yields a
\* token the line does not hold: one that starts an atom (the loop then
\* ends and the molecule is enqueued), one stol rejects, or a number after
\* which the loop runs on behind the end of the vector.
enqueue_mdesc(tokens) ==
    /\ pc = "idle"
    /\ LET r == Parsed[tokens]
       IN  CASE r.res = "einval" -> Ends(tokens, "einval", EINVAL)
             [] r.res = "zero" -> Ends(tokens, "zero", 0)
             [] r.res = "hang" -> Ends(tokens, "hang", 0)
             [] r.res = "throw" -> Ends(tokens, "throw", 0)
             [] r.res = "past_end" ->
                    \/ enqueue(r.m)
                    \/ Ends(tokens, "throw", 0)
                    \/ Ends(tokens, "hang", 0)
             [] r.res = "enqueue" -> enqueue(r.m)

\* vqueue_stop(const char* args): the body is empty
vqueue_stop(args) ==
    /\ pc = "idle"
    /\ cmd' = Cmd("vqueue_stop", args, "none", 0)
    /\ UNCHANGED <<molecules, cap, g_play, g_rec, ops, pc, now, clock, fault,
                   past_end, started, ret, enqueued, begun, preempted>>

\* vqueue_cancel(const char* args): the body is empty
vqueue_cancel(args) ==
    /\ pc = "idle"
    /\ cmd' = Cmd("vqueue_cancel", args, "none", 0)
    /\ UNCHANGED <<molecules, cap, g_play, g_rec, ops, pc, now, clock, fault,
                   past_end, started, ret, enqueued, begun, preempted>>

\* ------------------------------------------------------------------ inputs
Modes == {m_discard, m_pause, m_mute, m_restart, m_dont_interrupt,
          m_pause + m_loop, m_pause + m_mute}

OnePlay(f) == <<PlayAtom(f, 0)>>
TwoPlays(f, g) == <<PlayAtom(f, 0), PlayAtom(g, 1)>>

Inputs ==
    {NewMolecule(0, mode, TwoPlays("hello.wav", "long.wav")) : mode \in Modes}
    \cup {NewMolecule(0, m_discard, OnePlay("hello.wav")),
          NewMolecule(1, m_discard, OnePlay("beep.wav")),
          NewMolecule(1, m_restart, TwoPlays("beep.wav", "beep.wav")),
          NewMolecule(1, m_restart,
                      <<DTMFAtom(<<"1", "*">>), RecordAtom("msg.wav")>>)}

Init ==
    /\ molecules = [p \in Lanes |-> <<>>]
    /\ cap = [p \in Lanes |-> 0]
    /\ g_play = 0
    /\ g_rec = 0
    /\ ops = {}
    /\ pc = "idle"
    /\ now = 0
    /\ clock = 1
    /\ fault = FALSE
    /\ past_end \in {"zero", "nonzero", "g_play", "g_rec"}
    /\ started = 0
    /\ ret = 0
    /\ enqueued = <<>>
    /\ begun = {}
    /\ preempted = {}
    /\ cmd = Cmd("none", <<>>, "none", 0)

Next ==
    \/ Tick
    \/ \E m \in Inputs : enqueue(m)
    \/ \E o \in ops : play_stop_handler(o)
    \/ schedule

Spec == Init /\ [][Next]_vars

\* a run over molecules of two priorities that all reach the player
InputsPrio ==
    {NewMolecule(0, m_pause, TwoPlays("hello.wav", "long.wav")),
     NewMolecule(1, m_dont_interrupt,
                 <<DTMFAtom(<<"1", "*">>), RecordAtom("msg.wav")>>)}

NextPrio ==
    \/ Tick
    \/ \E m \in InputsPrio : enqueue(m)
    \/ \E o \in ops : play_stop_handler(o)
    \/ schedule

SpecPrio == Init /\ [][NextPrio]_vars

\* a run over looping molecules of one lane
InputsLoop ==
    {NewMolecule(0, m_loop, OnePlay("hello.wav")),
     NewMolecule(0, m_loop, TwoPlays("hello.wav", "long.wav")),
     NewMolecule(0, m_loop,
                 <<PlayAtom("hello.wav", 0), DTMFAtom(<<"1", "2">>)>>)}

NextLoop ==
    \/ Tick
    \/ \E m \in InputsLoop : enqueue(m)
    \/ \E o \in ops : play_stop_handler(o)
    \/ schedule

SpecLoop == Init /\ [][NextLoop]_vars

NextCmd ==
    \/ Tick
    \/ \E tokens \in Lines : enqueue_mdesc(tokens)
    \/ \E o \in ops : play_stop_handler(o)
    \/ schedule

SpecCmd == Init /\ [][NextCmd]_vars

\* the arguments of vqueue_stop (an id) and of vqueue_cancel (a priority),
\* known and unknown ones
StopArgs == {<<"1">>, <<"2">>, <<"7">>}
CancelArgs == {<<"0">>, <<"1">>, <<"7">>}

NextCancel ==
    \/ Tick
    \/ \E m \in InputsPrio : enqueue(m)
    \/ \E o \in ops : play_stop_handler(o)
    \/ schedule
    \/ \E args \in StopArgs : vqueue_stop(args)
    \/ \E args \in CancelArgs : vqueue_cancel(args)

SpecCancel == Init /\ [][NextCancel]_vars

\* a run over molecules without Loop and without Record, every step of the
\* dispatch loop and every completion the host owes being taken in the end:
\* schedule runs to its return once called, and the host calls the finish
\* handler of a player that is in flight
InputsLive ==
    {NewMolecule(0, m_pause, TwoPlays("hello.wav", "long.wav")),
     NewMolecule(1, m_restart, OnePlay("beep.wav"))}

NextLive ==
    \/ Tick
    \/ \E m \in InputsLive : enqueue(m)
    \/ \E o \in ops : play_stop_handler(o)
    \/ schedule

Completion == \E o \in ops : play_stop_handler(o)

SpecLive ==
    /\ Init
    /\ [][NextLive]_vars
    /\ WF_vars(schedule)
    /\ WF_vars(Completion)

\* a run over molecules with a DTMF atom without digits, which makes the
\* DTMF branch of schedule advance the molecule's current index itself
InputsDtmf ==
    {NewMolecule(0, m_restart,
                 <<PlayAtom("hello.wav", 0), DTMFAtom(<<>>),
                   PlayAtom("long.wav", 0)>>),
     NewMolecule(1, m_pause, <<DTMFAtom(<<"1", "*">>), DTMFAtom(<<>>)>>)}

NextDtmf ==
    \/ Tick
    \/ \E m \in InputsDtmf : enqueue(m)
    \/ \E o \in ops : play_stop_handler(o)
    \/ schedule

SpecDtmf == Init /\ [][NextDtmf]_vars

\* ------------------------------------------------------------ vocabulary
\* the ids of the molecules stored in the queue
Stored(q) == UNION {{q[p][i].id : i \in 1..Len(q[p])} : p \in Lanes}

\* the stored molecule with the given id
Mol(q, id) ==
    LET s == CHOOSE s \in [lane : Lanes, idx : 1..MaxEnq] :
                 Live(q, s) /\ At(q, s).id = id
    IN  At(q, s)

\* this step is an enqueue command
EnqueueStep == Len(enqueued') = Len(enqueued) + 1
Enqueued == enqueued'[Len(enqueued')]

\* the operations this step starts
NewOps == IF started' = started + 1 THEN ops' \ ops ELSE {}

\* this step is the completion of o, the only operation in flight
CompleteStep(o) ==
    /\ ops = {o}
    /\ o \in Running
    /\ pc = "idle" /\ pc' = "loop"
    /\ ~EnqueueStep

\* C1: at most one audio operation (play or record) started by the
\* scheduler is in flight at any instant
C1_SingleOutstanding == Cardinality(ops) <= 1

\* C2: a schedule call never starts more than one audio operation, and a
\* call that has returned 0 has started exactly one if the queue is not
\* empty and none if it is
C2_DispatchStartsOne ==
    /\ started <= 1
    /\ (pc = "idle" /\ ret = 0) =>
           started = (IF Stored(molecules) = {} THEN 0 ELSE 1)

\* a DontInterrupt molecule held the player before this step
Incumbent ==
    \E o \in Running : HasMode(At(molecules, o.arg).mode, m_dont_interrupt)

\* C3: whenever the scheduler begins an atom of a molecule, no molecule of
\* strictly higher priority is pending in the queue, unless it is blocked
\* behind a running DontInterrupt molecule
C3_PriorityMonotonic ==
    [][\A o \in NewOps : \A p \in Lanes :
          (p > enqueued[o.mol].priority /\ molecules'[p] # <<>>)
              => Incumbent]_vars

\* a molecule of priority 1 holds the player while one of priority 0 waits
C3_Witness ==
    /\ pc = "idle"
    /\ molecules[0] # <<>>
    /\ \E o \in Running : enqueued[o.mol].priority = 1

\* C4: of two molecules of the same priority, the first atom of the one
\* enqueued first is dispatched before the first atom of the other
C4_LaneFIFO ==
    \A a, b \in 1..Len(enqueued) :
        (/\ a < b
         /\ enqueued[a].priority = enqueued[b].priority
         /\ <<b, 0>> \in begun) => <<a, 0>> \in begun

\* C5: enqueuing a molecule while a DontInterrupt molecule is running does
\* not release the running player nor change the running molecule's atom
C5_DontInterrupt ==
    [][\A o \in Running :
          (EnqueueStep /\ HasMode(At(molecules, o.arg).mode, m_dont_interrupt))
              => /\ g_play' = g_play
                 /\ o \in ops'
                 /\ o.mol \in Stored(molecules')
                 /\ Mol(molecules', o.mol).current = o.atom]_vars

\* a molecule made of a single Play atom
SinglePlay(m) == Len(m.atoms) = 1 /\ m.atoms[1].kind = "Play"

\* C6: after a single-Play molecule was enqueued on the empty idle queue,
\* either its atoms[0] is playing at that atom's offset and the molecule is
\* in its lane, or that atom has been played and the lane is empty
C6_SimplePlay ==
    (/\ Len(enqueued) = 1
     /\ SinglePlay(enqueued[1])
     /\ pc = "idle" /\ ret = 0 /\ ~fault)
        => \/ \E o \in Running :
                 /\ o.mol = 1
                 /\ o.atom = 0
                 /\ o.offset = enqueued[1].atoms[1].offset
                 /\ o.file = enqueued[1].atoms[1].filename
           \/ /\ <<1, 0>> \in begun
              /\ Stored(molecules) = {}
              /\ ops = {}

\* C7: enqueuing a molecule of strictly higher priority while a Discard
\* molecule is running releases its player, removes it from its lane and
\* keeps the new molecule, at its first atom
C7_PreemptDiscard ==
    [][\A o \in Running :
          (/\ EnqueueStep
           /\ HasMode(At(molecules, o.arg).mode, m_discard)
           /\ Enqueued.priority > At(molecules, o.arg).priority)
              => /\ o \notin ops'
                 /\ o.mol \notin Stored(molecules')
                 /\ Len(enqueued') \in Stored(molecules')
                 /\ Mol(molecules', Len(enqueued')).current = 0]_vars

\* C8: a Restart molecule preempted by a molecule of strictly higher
\* priority stays in its lane with current = 0 and position = 0
C8_PreemptRestart ==
    [][\A o \in Running :
          (/\ EnqueueStep
           /\ HasMode(At(molecules, o.arg).mode, m_restart)
           /\ Enqueued.priority > At(molecules, o.arg).priority)
              => /\ o.mol \in Stored(molecules')
                 /\ Mol(molecules', o.mol).current = 0
                 /\ Mol(molecules', o.mol).position = 0]_vars

\* seek: the atom index and the offset in that atom at which the files of
\* atoms have played for position ms
Seek(atoms, position) ==
    LET i == Max({k \in 0..(Len(atoms) - 1) : FileLength(atoms, k) <= position})
    IN  <<i, position - FileLength(atoms, i)>>

\* the molecule the dispatch loop is about to serve was preempted and has
\* not been served since
Resuming(r) == r \in preempted /\ Serving = r.id

\* C9: a Mute molecule preempted at t1 with played position pos and served
\* again at t2, pos + (t2 - t1) being less than its total length, is still
\* in its lane and is resumed at seek(pos + t2 - t1)
C9_MuteResume ==
    [][\A r \in preempted :
          (/\ Resuming(r)
           /\ HasMode(enqueued[r.id].mode, m_mute)
           /\ r.pos + (clock - r.t1) <
                  FileLength(enqueued[r.id].atoms, Len(enqueued[r.id].atoms)))
              => /\ ~fault'
                 /\ r.id \in Stored(molecules')
                 /\ \A o \in NewOps :
                       <<o.atom, o.offset>> =
                           Seek(enqueued[r.id].atoms, r.pos + (clock - r.t1))]_vars

C11_LoopNeverCompletes ==
    [][/\ \A id \in Stored(molecules) :
             HasMode(enqueued[id].mode, m_loop)
                 => id \in Stored(molecules')
       /\ \A o \in ops :
             (/\ CompleteStep(o)
              /\ HasMode(enqueued[o.mol].mode, m_loop)
              /\ o.atom + 1 = Len(enqueued[o.mol].atoms))
                 => /\ o.mol \in Stored(molecules')
                    /\ Mol(molecules', o.mol).current = 0]_vars

\* no molecule of strictly higher priority was ever enqueued: the molecule
\* with this id is never preempted
Unpreempted(id) ==
    \A k \in 1..Len(enqueued) :
        enqueued[k].priority <= enqueued[id].priority

\* C12: a molecule without Loop that is never preempted has its atoms
\* dispatched in the order atoms[0], atoms[1], ..., its current index never
\* exceeds the number of its atoms that were dispatched, and it is not
\* removed from its lane before its last atom was dispatched
C12_AtomsInOrder ==
    (pc = "idle" /\ ~fault) =>
        \A id \in 1..Len(enqueued) :
            (~HasMode(enqueued[id].mode, m_loop) /\ Unpreempted(id))
                => /\ \A k \in 1..(Len(enqueued[id].atoms) - 1) :
                          <<id, k>> \in begun => <<id, k - 1>> \in begun
                   /\ id \in Stored(molecules) =>
                          Mol(molecules, id).current <=
                              Cardinality({b \in begun : b[1] = id})
                   /\ id \notin Stored(molecules) =>
                          <<id, Len(enqueued[id].atoms) - 1>> \in begun

\* the last call was the enqueue command and it has returned
Returned == pc = "idle" /\ ~fault /\ cmd.op = "enqueue"

\* the value the enqueue command returned
ReturnValue == IF cmd.res = "enqueue" THEN ret ELSE cmd.rv

\* C13: the enqueue command returns 0 when it rejects the line and a
\* positive id when it has enqueued the molecule
C13_ReturnValue ==
    Returned => IF cmd.res = "enqueue" THEN ReturnValue >= 1
                ELSE ReturnValue = 0

\* this step is a call of the enqueue command
CommandStep ==
    /\ pc = "idle"
    /\ cmd'.op = "enqueue"
    /\ cmd' # cmd \/ EnqueueStep

\* the line's first token is an integer in [0, max_priority)
ValidPriority(line) ==
    /\ line # <<>>
    /\ Chars(line[1]) # <<>>
    /\ \A i \in 1..Len(Chars(line[1])) : Digit(Chars(line[1])[i]) >= 0
    /\ Digits(Chars(line[1]), 1, 0) \in Lanes

\* the command of this step was rejected: it returned without enqueuing
Rejected == cmd'.res \in {"einval", "zero"} /\ ~EnqueueStep

\* C14: a command whose priority token is missing or is not an integer in
\* [0, max_priority) is rejected and no lane is modified, and every stored
\* molecule lies in the lane of its priority
C14_InvalidPriority ==
    [][/\ (CommandStep /\ ~ValidPriority(cmd'.line))
             => (Rejected /\ molecules' = molecules)
       /\ \A p \in Lanes : \A i \in 1..Len(molecules'[p]) :
              molecules'[p][i].priority = p]_vars

\* the interrupt-policy flags set in mode
Policies(mode) ==
    {f \in {m_discard, m_pause, m_mute, m_restart, m_dont_interrupt} :
        HasMode(mode, f)}

\* the interrupt policies the line's keywords name
Named(line) ==
    UNION {Policies(mode_flag(line[i])) : i \in 1..Len(line)}

\* C15: a command that names two different interrupt policies is rejected
\* and nothing is enqueued, and every stored molecule has at most one
\* interrupt-policy flag set
C15_ConflictingModes ==
    [][/\ (CommandStep /\ Cardinality(Named(cmd'.line)) > 1)
             => (Rejected /\ molecules' = molecules)
       /\ \A p \in Lanes : \A i \in 1..Len(molecules'[p]) :
              Cardinality(Policies(molecules'[p][i].mode)) <= 1]_vars

\* the tokens the grammar knows as keywords
Keywords ==
    {"loop", "mute", "discard", "pause", "restart", "dont_interrupt",
     "dtmf_stop", "p", "play", "r", "record", "d", "dtmf"}

\* the line has priority and modes and then, where an atom keyword is due,
\* a token that is none
UnknownToken(line) ==
    /\ ValidPriority(line)
    /\ \E k \in 3..Len(line) :
          /\ \A i \in 2..(k - 1) : mode_flag(line[i]) # 0
          /\ line[k] \notin Keywords

\* C16: a command with an unknown token is rejected: the parser returns the
\* failure value and enqueues nothing
C16_UnknownToken ==
    [][(CommandStep /\ UnknownToken(cmd'.line))
          => (Rejected /\ molecules' = molecules /\ pc' = "idle")]_vars

\* the mode keywords of the grammar
ModeKeywords ==
    {"loop", "mute", "discard", "pause", "restart", "dont_interrupt",
     "dtmf_stop"}

\* the line is a valid priority followed by mode keywords and nothing else
NoAtom(line) ==
    /\ ValidPriority(line)
    /\ Len(line) >= 2
    /\ \A i \in 2..Len(line) : line[i] \in ModeKeywords

\* C17: a command with a valid priority and modes but no atom returns 0 and
\* leaves the queue unchanged, and no stored molecule has an empty atom list
C17_EmptyMolecule ==
    [][/\ (CommandStep /\ NoAtom(cmd'.line))
             => /\ cmd'.res = "zero" /\ cmd'.rv = 0
                /\ ~EnqueueStep
                /\ molecules' = molecules
       /\ \A p \in Lanes : \A i \in 1..Len(molecules'[p]) :
              molecules'[p][i].atoms # <<>>]_vars

\* the atoms a line of the grammar `priority mode+ atom+` denotes, read
\* from token t on: after a filename or digits, a token is the atom's
\* numeric parameter unless it begins with p, r or d
RECURSIVE GrammarAtoms(_, _)
GrammarAtoms(line, t) ==
    IF t + 1 > Len(line) THEN <<>>
    ELSE LET param == t + 2 <= Len(line) /\ ~is_atom_start(line[t + 2])
             v == IF param THEN stol(line[t + 2]).val ELSE 0
             a == CASE line[t] \in {"p", "play"} ->
                         PlayAtom(line[t + 1], v)
                    [] line[t] \in {"r", "record"} ->
                         IF param
                         THEN [RecordAtom(line[t + 1])
                                  EXCEPT !.max_silence = v]
                         ELSE RecordAtom(line[t + 1])
                    [] line[t] \in {"d", "dtmf"} ->
                         IF param
                         THEN [DTMFAtom(Chars(line[t + 1]))
                                  EXCEPT !.inter_digit_delay = v]
                         ELSE DTMFAtom(Chars(line[t + 1]))
         IN  <<a>> \o GrammarAtoms(line, IF param THEN t + 3 ELSE t + 2)

\* the index of the first token behind the mode keywords
AtomsFrom(line) ==
    Min({k \in 2..(Len(line) + 1) :
            k > Len(line) \/ line[k] \notin ModeKeywords})

\* the tokens from t on are atoms: keyword, filename or digits, and
\* optionally a number
RECURSIVE AtomsOnly(_, _)
AtomsOnly(line, t) ==
    IF t > Len(line) THEN TRUE
    ELSE /\ line[t] \in {"p", "play", "r", "record", "d", "dtmf"}
         /\ t + 1 <= Len(line)
         /\ IF t + 2 <= Len(line) /\ ~is_atom_start(line[t + 2])
            THEN ~stol(line[t + 2]).throws /\ AtomsOnly(line, t + 3)
            ELSE AtomsOnly(line, t + 2)

\* the line matches `priority mode+ atom+`
WellFormed(line) ==
    /\ ValidPriority(line)
    /\ AtomsFrom(line) > 2
    /\ AtomsFrom(line) <= Len(line)
    /\ AtomsOnly(line, AtomsFrom(line))

\* C18: on a line that matches the grammar the parser terminates without
\* reading past the last token and enqueues a molecule whose atoms are the
\* atoms of the line, in order and with their parameters
C18_ParsesGrammar ==
    [][(CommandStep /\ WellFormed(cmd'.line))
          => /\ cmd'.res = "enqueue"
             /\ parse(cmd'.line).res = "enqueue"
             /\ Enqueued.atoms = GrammarAtoms(cmd'.line, AtomsFrom(cmd'.line))
      ]_vars

\* C19: when schedule returns because the start of the player or recorder
\* failed, the molecule it was serving is no longer in its lane
C19_AudioStartFailed ==
    [][(pc = "loop" /\ pc' = "idle" /\ ret' # 0)
          => Serving \notin Stored(molecules')]_vars

\* this step is a call of the entry point op
CallStep(op) == pc = "idle" /\ cmd'.op = op /\ cmd' # cmd

\* the queue without the molecules that satisfy gone
Without(q, gone(_)) ==
    [p \in Lanes |-> SelectSeq(q[p], LAMBDA m : ~gone(m))]

\* C20: vqueue_stop <id> removes the molecule enqueued with that id from its
\* lane and releases the player if that molecule is the running one,
\* vqueue_cancel <priority> removes all molecules of that lane, and both
\* leave every other molecule as it is (an unknown id or priority changes
\* nothing)
C20_Cancel ==
    [][/\ CallStep("vqueue_stop") =>
             LET id == stol(cmd'.line[1]).val
                 Stopped(m) == m.id = id
             IN  /\ molecules' = Without(molecules, Stopped)
                 /\ \A o \in Running : o.mol = id => o \notin ops'
       /\ CallStep("vqueue_cancel") =>
             LET p == stol(cmd'.line[1]).val
                 Cancelled(m) == m.priority = p
             IN  molecules' = Without(molecules, Cancelled)]_vars

\* C21: no molecule has Loop and only finitely many molecules are enqueued,
\* so in the end the queue is empty and stays empty (unless the process was
\* killed)
C21_Recovery == <>[](Stored(molecules) = {} \/ fault)

\* the atoms of two molecules are the same up to the defaulted fields
SameAtoms(m1, m2) ==
    /\ Len(m1.atoms) = Len(m2.atoms)
    /\ \A i \in 1..Len(m1.atoms) :
           /\ m1.atoms[i].kind = m2.atoms[i].kind
           /\ m1.atoms[i].filename = m2.atoms[i].filename
           /\ m1.atoms[i].dtmf = m2.atoms[i].dtmf

\* C22: parsing the description of a molecule the parser built (from a line
\* it read to the end) gives a molecule of the same priority, the same mode
\* flags and the same atoms
C22_RoundTrip ==
    \A k \in 1..Len(enqueued) :
        LET m == enqueued[k]
        IN  (m.line \in Lines /\ Parsed[m.line].res = "enqueue") =>
                /\ RoundTrip[m.line].res = "enqueue"
                /\ RoundTrip[m.line].m.priority = m.priority
                /\ RoundTrip[m.line].m.mode = m.mode
                /\ SameAtoms(RoundTrip[m.line].m, m)

\* the file that renders a digit
DigitFile(ch) ==
    CASE ch = "*" -> "soundstar.wav"
      [] ch = "#" -> "soundroute.wav"
      [] OTHER -> "sound" \o ch \o ".wav"

\* the atom an operation was started for
AtomOf(q, o) == Mol(q, o.mol).atoms[o.atom + 1]

\* C23: the first play started for a DTMF atom is the play of its first
\* digit, and the completion of a play for a DTMF atom of more than one digit
\* leaves the molecule at that atom
C23_DtmfOrder ==
    [][/\ \A o \in NewOps :
              (/\ AtomOf(molecules', o).kind = "DTMF"
               /\ <<o.mol, o.atom>> \notin begun)
              => /\ AtomOf(molecules', o).dtmf # <<>>
                 /\ o.file = DigitFile(AtomOf(molecules', o).dtmf[1])
       /\ \A o \in ops :
              (/\ CompleteStep(o)
               /\ AtomOf(molecules, o).kind = "DTMF"
               /\ Len(AtomOf(molecules, o).dtmf) > 1
               /\ \A b \in begun' : b = <<o.mol, o.atom>>)
              => /\ o.mol \in Stored(molecules')
                 /\ Mol(molecules', o.mol).current = o.atom]_vars

\* C24: a recording in flight has a completion callback bound to the
\* molecule it was started for
C24_RecordCompletion ==
    \A o \in ops :
        o.kind = "rec" =>
            /\ Live(molecules, o.arg)
            /\ At(molecules, o.arg).id = o.mol

\* C25: next() reads the lanes 0..max_priority-1 only, so that a call of it
\* never traps (in the runs of SpecLoop, which have no Pause, no Mute and no
\* Record, the process can then die of a stale callback only), and what it
\* returns is none or the head of a lane with atoms remaining
C25_NextLanes ==
    /\ fault => \E o \in ops : o.dangling
    /\ \/ next(molecules) = end(molecules)
       \/ /\ next(molecules).idx = 1
          /\ At(molecules, next(molecules)).current
                 < Len(At(molecules, next(molecules)).atoms)

\* the molecule at the head of the queue, which the dispatch loop serves
Served == At(molecules, next(molecules))

\* C26: where schedule calls set_position(position) on a molecule, the call
\* is defined, whatever the molecule's length, and on a Mute molecule it
\* selects the atom and the offset in it at which the files of the atoms
\* have played for position ms
C26_SetPosition ==
    (pc = "loop" /\ Serving # 0 /\ HasMode(Served.mode, m_pause)) =>
        /\ ~set_position_traps(Served)
        /\ (/\ HasMode(Served.mode, m_mute)
            /\ Served.position
                   < FileLength(Served.atoms, Len(Served.atoms)))
           => LET r == set_position(Served, Served.position)
              IN  <<r.current, r.atoms[r.current + 1].offset>> =
                      Seek(Served.atoms, Served.position)

\* C27: time_started of a molecule is the time of the dispatch of its atom,
\* and the completion of its atom at t sets time_stopped to t and adds
\* t - time_started to its position
C27_TimeAccounting ==
    [][/\ \A o \in NewOps :
              Mol(molecules', o.mol).time_started = clock
       /\ \A o \in ops :
              (CompleteStep(o) /\ o.mol \in Stored(molecules'))
              => /\ Mol(molecules', o.mol).time_stopped = clock
                 /\ Mol(molecules', o.mol).position =
                        Mol(molecules, o.mol).position
                        + (clock - Mol(molecules, o.mol).time_started)]_vars

\* C28: a pass of the dispatch loop removes the Mute molecule it serves only
\* if the molecule was preempted, its position at the preemption plus the
\* time since then exceeds the duration of its files, and Loop is unset
C28_MuteOverrun ==
    [][(/\ Serving # 0
        /\ HasMode(Served.mode, m_mute)
        /\ ~HasMode(Served.mode, m_pause)
        /\ Serving \notin Stored(molecules'))
       => /\ ~HasMode(Served.mode, m_loop)
          /\ \E r \in preempted :
                /\ r.id = Serving
                /\ r.pos + (clock - r.t1)
                       > FileLength(Served.atoms, Len(Served.atoms))]_vars

\* C29: the Molecule* bound to the finish handler of a play in flight points
\* into live storage, at the molecule the play was started for
C29_CallbackOwnership ==
    \A o \in ops :
        o.kind = "play" =>
            /\ ~o.dangling
            /\ Live(molecules, o.arg)
            /\ At(molecules, o.arg).id = o.mol

\* C30: the current index of every stored molecule is within 0..atoms.size(),
\* and the molecule the dispatch loop is about to read atoms[current] of has
\* current < atoms.size()
C30_CurrentInBounds ==
    /\ \A id \in Stored(molecules) :
           /\ Mol(molecules, id).current >= 0
           /\ Mol(molecules, id).current <= Len(Mol(molecules, id).atoms)
    /\ Serving # 0 => Served.current < Len(Served.atoms)

\* the DTMF branch has advanced a molecule past a DTMF atom without digits
\* and started a play for it, and the molecule is stored at the atom behind
C30_Witness ==
    \E o \in ops :
        /\ o.mol \in Stored(molecules)
        /\ Mol(molecules, o.mol).current = o.atom
        /\ o.atom > 0
        /\ Mol(molecules, o.mol).atoms[o.atom].kind = "DTMF"
        /\ Mol(molecules, o.mol).atoms[o.atom].dtmf = <<>>
        /\ o.file = DtmfFilename(DTMF_current(<<>>, 0))

\* C31: enqueuing a molecule of a priority not above that of the running
\* molecule leaves the running molecule in its lane, at the same atom
C31_EnqueueBelow ==
    [][\A o \in Running :
          (/\ EnqueueStep
           /\ Enqueued.priority <= At(molecules, o.arg).priority)
              => /\ o.mol \in Stored(molecules')
                 /\ Mol(molecules', o.mol).current
                        = At(molecules, o.arg).current]_vars

\* the pass of the dispatch loop that is due discards the Mute molecule it
\* serves, and that molecule is the last one in the queue
DiscardsLast ==
    /\ Serving # 0
    /\ HasMode(Served.mode, m_mute)
    /\ ~HasMode(Served.mode, m_pause)
    /\ now - Served.time_stopped >= length(Served, 0, -1)
    /\ Stored(molecules) = {Serving}

\* C32: schedule does not go through the molecule next() returns unless
\* there is one: the pass that discards the last molecule of the queue, a
\* Mute one, does not kill the process (next() itself not trapping)
C32_NoMoleculeNoAccess ==
    [][(DiscardsLast /\ ~next_traps(g_play, g_rec)) => ~fault']_vars

====
